---- MODULE Spec2Model ----
(***************************************************************************)
(* The `is-valid` rules of the babel-config and typescript-config          *)
(* packages: formatting of ajv validation errors (prettyfy), grouping by   *)
(* dataPath, the asynchronous per-group report loops and their join.       *)
(*                                                                         *)
(* JavaScript strings are sequences of one-character strings, so that      *)
(* substr, replace, join and template concatenation are computed.          *)
(* An error object is referred to by its index in the event's `errors`     *)
(* array: two errors with equal fields are still two objects.              *)
(***************************************************************************)
EXTENDS Naturals, Sequences, FiniteSets, TLC

VARIABLES payload, grouped, loops, reports, handler, budget, fmtError, fmtResult

vars == <<payload, grouped, loops, reports, handler, budget, fmtError, fmtResult>>

(* ------------------------------ bounds --------------------------------- *)
\* errors carried by the events a behaviour handles (budget)
MaxErrors == 3
\* the same, for the fairly scheduled behaviours
MaxFairErrors == 2
\* entries of an enum error's allowedValues
MaxAllowed == 2

(* ------------------------------ inputs --------------------------------- *)
Dialects == {"babel", "typescript"}
Resources == {"r1", "r2"}
Null == "null"

Str(v) == [t |-> "string", v |-> v]
NullData == [t |-> "null", v |-> <<>>]

NoParams == [additionalProperty |-> <<>>, allowedValues |-> <<>>]

\* the errors a schema event of the concurrent specification is built from
EnumA == [dataPath |-> <<".", "a">>, keyword |-> "enum", message |-> <<"e", "q">>,
          params |-> [additionalProperty |-> <<>>, allowedValues |-> << <<"x">>, <<"y">> >>],
          data |-> Str(<<"z">>)]
AnyOfA == [dataPath |-> <<".", "a">>, keyword |-> "anyOf", message |-> <<"o">>,
           params |-> NoParams, data |-> Str(<<"z">>)]
PatternB == [dataPath |-> <<".", "b">>, keyword |-> "pattern",
             message |-> <<"m", "\"", "p", "\"">>,
             params |-> NoParams, data |-> Str(<<"z">>)]
ErrorPool == {EnumA, AnyOfA, PatternB}

RECURSIVE SeqsUpTo(_, _)
SeqsUpTo(S, n) ==
    IF n = 0 THEN {<<>>}
    ELSE LET shorter == SeqsUpTo(S, n - 1)
         IN  shorter \cup {Append(q, x) : q \in {t \in shorter : Len(t) = n - 1}, x \in S}

\* the error lists of the schema events
ErrorLists == SeqsUpTo(ErrorPool, MaxErrors)

JsonMessages == {<<"u", "'", "\"">>}

\* the errors the formatting specification draws from
FmtKeywords == {"additionalProperties", "enum", "type", "pattern", "anyOf", "required"}
FmtPaths == {<<>>, <<".", "a">>, <<"/", "b", "c">>}
FmtMessages == {<<"m">>, <<"m", "\"", "q", "\"">>}
FmtValues == {<<"x">>, <<"y">>}
FmtData == {Str(<<"z">>), Str(<<>>), NullData}
FmtErrors ==
    [dataPath : FmtPaths, keyword : FmtKeywords, message : FmtMessages,
     params : [additionalProperty : {<<"p">>}, allowedValues : SeqsUpTo(FmtValues, MaxAllowed)],
     data : FmtData]

(* ------------------------- string primitives --------------------------- *)
\* String.prototype.substr(1)
Substr1(s) == IF Len(s) = 0 THEN <<>> ELSE Tail(s)

\* String.prototype.replace(/"/g, '\'')
ReplaceQuotes(s) == [i \in 1..Len(s) |-> IF s[i] = "\"" THEN "'" ELSE s[i]]

\* Array.prototype.join(sep) over strings
RECURSIVE Join(_, _)
Join(strs, sep) ==
    IF Len(strs) = 0 THEN <<>>
    ELSE IF Len(strs) = 1 THEN strs[1]
    ELSE strs[1] \o sep \o Join(Tail(strs), sep)

\* the string a template literal makes of error.data
TemplateString(d) == IF d.t = "null" THEN <<"n", "u", "l", "l">> ELSE d.v

(* ---------------------------- generators ------------------------------- *)
NullResult == [isNull |-> TRUE, s |-> <<>>]
Result(s) == [isNull |-> FALSE, s |-> s]
\* `if (newErrorMessage)`: null and the empty string are falsy
Truthy(r) == ~r.isNull /\ Len(r.s) > 0

generateAdditionalPropertiesError(error) ==
    IF error.keyword # "additionalProperties" THEN NullResult
    ELSE LET property == Substr1(error.dataPath)
             additionalProperty == error.params.additionalProperty
         IN  Result(<<"'">> \o property \o <<"'", " ">> \o error.message
                    \o <<".", " ", "A", "d", "d", "i", "t", "i", "o", "n", "a", "l", " ", "p", "r", "o", "p", "e", "r", "t", "y", " ", "f", "o", "u", "n", "d", " ", "'">>
                    \o additionalProperty \o <<"'", ".">>)

RECURSIVE Reverse(_)
Reverse(seq) == IF Len(seq) = 0 THEN <<>> ELSE Append(Reverse(Tail(seq)), Head(seq))

\* generateEnumError listing the allowed values last to first
generateEnumErrorReversed(error) ==
    IF error.keyword # "enum" THEN [isNull |-> TRUE, s |-> <<>>]
    ELSE [isNull |-> FALSE,
          s |-> <<"'">> \o Substr1(error.dataPath) \o <<"'", " ">> \o error.message
                \o <<" ", "'">> \o Join(Reverse(error.params.allowedValues), <<",", " ">>)
                \o <<"'", ".", " ", "V", "a", "l", "u", "e", " ", "f", "o", "u", "n", "d", " ", "'">>
                \o TemplateString(error.data) \o <<"'">>]

generateEnumError(error) ==
    IF error.keyword # "enum" THEN NullResult
    ELSE LET property == Substr1(error.dataPath)
             allowedValues == error.params.allowedValues
         IN  Result(<<"'">> \o property \o <<"'", " ">> \o error.message \o <<" ", "'">>
                    \o Join(allowedValues, <<",", " ">>)
                    \o <<"'", ".", " ", "V", "a", "l", "u", "e", " ", "f", "o", "u", "n", "d", " ", "'">>
                    \o TemplateString(error.data) \o <<"'">>)

generatePatternError(error) ==
    IF error.keyword # "pattern" THEN NullResult
    ELSE LET property == Substr1(error.dataPath)
         IN  Result(<<"'">> \o property \o <<"'", " ">> \o ReplaceQuotes(error.message)
                    \o <<".", " ", "V", "a", "l", "u", "e", " ", "f", "o", "u", "n", "d", " ", "'">>
                    \o TemplateString(error.data) \o <<"'">>)

generateTypeError(error) ==
    IF error.keyword # "type" THEN NullResult
    ELSE LET property == Substr1(error.dataPath)
         IN  Result(<<"'">> \o property \o <<"'", " ">> \o ReplaceQuotes(error.message)
                    \o <<".">>)

errorGenerators(dialect) ==
    IF dialect = "typescript"
    THEN <<"generateAdditionalPropertiesError", "generateEnumError", "generatePatternError">>
    ELSE <<"generateAdditionalPropertiesError", "generateEnumError", "generateTypeError">>

Generate(generator, error) ==
    CASE generator = "generateAdditionalPropertiesError" -> generateAdditionalPropertiesError(error)
      [] generator = "generateEnumError" -> generateEnumError(error)
      [] generator = "generatePatternError" -> generatePatternError(error)
      [] generator = "generateTypeError" -> generateTypeError(error)

\* errorGenerators.reduce(..., error.message): every generator is tried, a truthy
\* result replaces the accumulator
RECURSIVE Reduce(_, _, _)
Reduce(generators, error, message) ==
    IF Len(generators) = 0 THEN message
    ELSE LET newErrorMessage == Generate(Head(generators), error)
         IN  Reduce(Tail(generators), error,
                    IF Truthy(newErrorMessage) THEN newErrorMessage.s ELSE message)

\* prettyfy whose reduce is not seeded with error.message
prettyfyNoSeed(dialect, error) == Reduce(errorGenerators(dialect), error, <<>>)

prettyfy(dialect, error) == Reduce(errorGenerators(dialect), error, error.message)

(* ------------------------------ grouping ------------------------------- *)
\* position of key among the groups, 0 when absent
KeyIndex(groups, key) ==
    IF \E g \in 1..Len(groups) : groups[g].key = key
    THEN CHOOSE g \in 1..Len(groups) : groups[g].key = key
    ELSE 0

\* lodash.groupby(errors, 'dataPath') over the first n errors: a new key is added
\* after the existing ones, an error is pushed at the end of its key's array.
\* The arrays hold references, here the indices into errors.
\* groupBy that puts a new key before the existing ones
RECURSIVE GroupByUnshift(_, _)
GroupByUnshift(errors, n) ==
    IF n = 0 THEN <<>>
    ELSE LET result == GroupByUnshift(errors, n - 1)
             key == errors[n].dataPath
             g == KeyIndex(result, key)
         IN  IF g = 0
             THEN <<[key |-> key, values |-> <<n>>]>> \o result
             ELSE [result EXCEPT ![g].values = Append(@, n)]

RECURSIVE GroupByUpTo(_, _)
GroupByUpTo(errors, n) ==
    IF n = 0 THEN <<>>
    ELSE LET result == GroupByUpTo(errors, n - 1)
             key == errors[n].dataPath
             g == KeyIndex(result, key)
         IN  IF g = 0
             THEN Append(result, [key |-> key, values |-> <<n>>])
             ELSE [result EXCEPT ![g].values = Append(@, n)]

\* keyBy in place of groupBy: a key keeps only the last error that has it
keyBy(errors) ==
    LET groups == GroupByUpTo(errors, Len(errors))
    IN  [g \in 1..Len(groups) |->
            [key |-> groups[g].key,
             values |-> <<groups[g].values[Len(groups[g].values)]>>]]

groupBy(errors) == GroupByUpTo(errors, Len(errors))

\* lodash.without(errors, error): drops the references to that one object
without(values, error) == SelectSeq(values, LAMBDA v : v # error)

(* ------------------------------ reporting ------------------------------ *)
MapPrettyfy(dialect, errors, values) ==
    [k \in 1..Len(values) |-> prettyfy(dialect, errors[values[k]])]

\* report() building the anyOf message from the whole error list of the event
ReportMessageWholeList(dialect, errors, values, k) ==
    LET error == errors[values[k]]
    IN  IF dialect = "typescript" /\ error.keyword = "anyOf"
        THEN LET otherErrors == without([i \in 1..Len(errors) |-> i], values[k])
                 results == MapPrettyfy(dialect, errors, otherErrors)
             IN  Join(results, <<" ", "o", "r", " ">>)
        ELSE prettyfy(dialect, error)

\* the message report() passes to context.report for values[k]
ReportMessage(dialect, errors, values, k) ==
    LET error == errors[values[k]]
    IN  IF dialect = "typescript" /\ error.keyword = "anyOf"
        THEN LET otherErrors == without(values, values[k])
                 results == MapPrettyfy(dialect, errors, otherErrors)
             IN  Join(results, <<" ", "o", "r", " ">>)
        ELSE prettyfy(dialect, error)

\* one call context.report(resource, null, message); err remembers the error
\* object the call was made for (0: the parse error of a json event), during the
\* state of the event's handler when the call was made
ContextReport(resource, message, err) ==
    [resource |-> resource, location |-> Null, message |-> message,
     err |-> err, outcome |-> "pending", during |-> handler[resource]]

NoPayload == [kind |-> "none", dialect |-> "babel", resource |-> "", errors |-> <<>>,
              message |-> <<>>]

TotalErrors == LET RECURSIVE Sum(_)
                   Sum(S) == IF S = {} THEN 0
                             ELSE LET r == CHOOSE x \in S : TRUE
                                      carried == IF payload[r].kind = "json" THEN 1
                                                 ELSE Len(payload[r].errors)
                                  IN  carried + Sum(S \ {r})
               IN  Sum(Resources)

\* report(values, resource) from its start to its first await, appended to the
\* calls made so far
StartReport(dialect, resource, errors, values, calls) ==
    Append(calls, ContextReport(resource, ReportMessage(dialect, errors, values, 1), values[1]))

\* map(grouped, values => report(values, resource)): the loops are started in
\* key order, each running synchronously up to its first await
RECURSIVE StartAll(_, _, _, _, _)
StartAll(dialect, resource, errors, groups, n) ==
    IF n = 0 THEN <<>>
    ELSE StartReport(dialect, resource, errors, groups[n].values,
                     StartAll(dialect, resource, errors, groups, n - 1))

NoError == [dataPath |-> <<>>, keyword |-> "", message |-> <<>>, params |-> NoParams,
            data |-> NullData]
NoResult == [dialect |-> "none", message |-> <<>>]

\* the resources are handled in the order r1, r2 (they are interchangeable)
Arrived(r) == r = "r1" \/ handler["r1"] # "idle"

TypeOK ==
    /\ \A r \in Resources :
        /\ payload[r].kind \in {"none", "json", "schema"}
        /\ handler[r] \in {"idle", "pending", "resolved", "rejected"}
        /\ Len(loops[r]) = Len(grouped[r])

Init ==
    /\ payload = [r \in Resources |-> NoPayload]
    /\ grouped = [r \in Resources |-> <<>>]
    /\ loops = [r \in Resources |-> <<>>]
    /\ reports = [r \in Resources |-> <<>>]
    /\ handler = [r \in Resources |-> "idle"]
    /\ budget = MaxErrors
    /\ fmtError = NoError
    /\ fmtResult = NoResult

\* invalidSchema({errors, resource}) up to `await Promise.all(promises)`
invalidSchema(r, dialect, errors) ==
    /\ handler[r] = "idle"
    /\ Arrived(r)
    /\ TotalErrors + Len(errors) <= budget
    /\ LET groups == groupBy(errors)
       IN  /\ payload' = [payload EXCEPT ![r] =
                   [kind |-> "schema", dialect |-> dialect, resource |-> r,
                    errors |-> errors, message |-> <<>>]]
           /\ grouped' = [grouped EXCEPT ![r] = groups]
           /\ reports' = [reports EXCEPT ![r] = StartAll(dialect, r, errors, groups, Len(groups))]
           /\ loops' = [loops EXCEPT ![r] =
                   [g \in 1..Len(groups) |-> [i |-> 1, call |-> g, st |-> "awaiting"]]]
    /\ handler' = [handler EXCEPT ![r] = "pending"]
    /\ UNCHANGED <<budget, fmtError, fmtResult>>

\* invalidJSONFile passing the message through the quote replacement
invalidJSONFilePretty(r, dialect, message) ==
    /\ handler[r] = "idle"
    /\ Arrived(r)
    /\ TotalErrors + 1 <= budget
    /\ payload' = [payload EXCEPT ![r] =
            [kind |-> "json", dialect |-> dialect, resource |-> r,
             errors |-> <<>>, message |-> message]]
    /\ reports' = [reports EXCEPT ![r] = <<ContextReport(r, ReplaceQuotes(message), 0)>>]
    /\ handler' = [handler EXCEPT ![r] = "pending"]
    /\ UNCHANGED <<grouped, loops, budget, fmtError, fmtResult>>

\* invalidJSONFile({error, resource}) up to its await
invalidJSONFile(r, dialect, message) ==
    /\ handler[r] = "idle"
    /\ Arrived(r)
    /\ TotalErrors + 1 <= budget
    /\ payload' = [payload EXCEPT ![r] =
            [kind |-> "json", dialect |-> dialect, resource |-> r,
             errors |-> <<>>, message |-> message]]
    /\ reports' = [reports EXCEPT ![r] = <<ContextReport(r, message, 0)>>]
    /\ handler' = [handler EXCEPT ![r] = "pending"]
    /\ UNCHANGED <<grouped, loops, budget, fmtError, fmtResult>>

\* the sink acknowledges call c of resource r
SinkAck(r, c) ==
    /\ c \in 1..Len(reports[r])
    /\ reports[r][c].outcome = "pending"
    /\ reports' = [reports EXCEPT ![r][c].outcome = "ack"]
    /\ UNCHANGED <<payload, grouped, loops, handler, budget, fmtError, fmtResult>>

\* the sink rejects call c of resource r
SinkReject(r, c) ==
    /\ c \in 1..Len(reports[r])
    /\ reports[r][c].outcome = "pending"
    /\ reports' = [reports EXCEPT ![r][c].outcome = "reject"]
    /\ UNCHANGED <<payload, grouped, loops, handler, budget, fmtError, fmtResult>>

\* the next call of group g's loop, made for the error at position i of the group
NextCall(r, g, i) ==
    /\ reports' = [reports EXCEPT ![r] =
           Append(@, ContextReport(payload[r].resource,
               ReportMessage(payload[r].dialect, payload[r].errors, grouped[r][g].values, i),
               grouped[r][g].values[i]))]
    /\ loops' = [loops EXCEPT ![r][g] =
           [i |-> i, call |-> Len(reports[r]) + 1, st |-> "awaiting"]]

\* report() that does not await context.report: the loop goes on while the call
\* is still pending
ReportResumeNoAwait(r, g) ==
    /\ g \in 1..Len(loops[r])
    /\ loops[r][g].st = "awaiting"
    /\ IF reports[r][loops[r][g].call].outcome = "reject"
       THEN loops' = [loops EXCEPT ![r][g].st = "rejected"] /\ UNCHANGED reports
       ELSE IF loops[r][g].i = Len(grouped[r][g].values)
       THEN /\ reports[r][loops[r][g].call].outcome = "ack"
            /\ loops' = [loops EXCEPT ![r][g].st = "done"] /\ UNCHANGED reports
       ELSE NextCall(r, g, loops[r][g].i + 1)
    /\ UNCHANGED <<payload, grouped, handler, budget, fmtError, fmtResult>>

\* report() that calls context.report once more for an error whose call was
\* rejected
ReportResumeRetry(r, g) ==
    /\ g \in 1..Len(loops[r])
    /\ loops[r][g].st = "awaiting"
    /\ reports[r][loops[r][g].call].outcome # "pending"
    /\ IF reports[r][loops[r][g].call].outcome = "reject"
       THEN IF Cardinality({c \in 1..Len(reports[r]) :
                               reports[r][c].err = reports[r][loops[r][g].call].err}) < 2
            THEN NextCall(r, g, loops[r][g].i)
            ELSE loops' = [loops EXCEPT ![r][g].st = "rejected"] /\ UNCHANGED reports
       ELSE IF loops[r][g].i = Len(grouped[r][g].values)
       THEN loops' = [loops EXCEPT ![r][g].st = "done"] /\ UNCHANGED reports
       ELSE NextCall(r, g, loops[r][g].i + 1)
    /\ UNCHANGED <<payload, grouped, handler, budget, fmtError, fmtResult>>

\* report() that catches the rejection and goes on with the next error
ReportResumeSwallow(r, g) ==
    /\ g \in 1..Len(loops[r])
    /\ loops[r][g].st = "awaiting"
    /\ reports[r][loops[r][g].call].outcome # "pending"
    /\ IF loops[r][g].i = Len(grouped[r][g].values)
       THEN loops' = [loops EXCEPT ![r][g].st = "done"] /\ UNCHANGED reports
       ELSE NextCall(r, g, loops[r][g].i + 1)
    /\ UNCHANGED <<payload, grouped, handler, budget, fmtError, fmtResult>>

\* report() of group g continues after its await: the rejection is thrown out of
\* the loop, an acknowledgement moves the for-of loop to the next error
ReportResume(r, g) ==
    /\ g \in 1..Len(loops[r])
    /\ loops[r][g].st = "awaiting"
    /\ LET loop == loops[r][g]
           values == grouped[r][g].values
           outcome == reports[r][loop.call].outcome
       IN  /\ outcome # "pending"
           /\ IF outcome = "reject"
              THEN /\ loops' = [loops EXCEPT ![r][g].st = "rejected"]
                   /\ UNCHANGED reports
              ELSE IF loop.i = Len(values)
              THEN /\ loops' = [loops EXCEPT ![r][g].st = "done"]
                   /\ UNCHANGED reports
              ELSE /\ reports' = [reports EXCEPT ![r] =
                          Append(@, ContextReport(payload[r].resource,
                              ReportMessage(payload[r].dialect, payload[r].errors, values, loop.i + 1),
                              values[loop.i + 1]))]
                   /\ loops' = [loops EXCEPT ![r][g] =
                          [i |-> loop.i + 1, call |-> Len(reports[r]) + 1, st |-> "awaiting"]]
    /\ UNCHANGED <<payload, grouped, handler, budget, fmtError, fmtResult>>

\* invalidSchema that does not await Promise.all
PromiseAllUnawaited(r) ==
    /\ handler[r] = "pending"
    /\ payload[r].kind = "schema"
    /\ handler' = [handler EXCEPT ![r] = "resolved"]
    /\ UNCHANGED <<payload, grouped, loops, reports, budget, fmtError, fmtResult>>

\* Promise.all(promises) settles and invalidSchema continues after its await
PromiseAll(r) ==
    /\ handler[r] = "pending"
    /\ payload[r].kind = "schema"
    /\ \/ /\ \E g \in 1..Len(loops[r]) : loops[r][g].st = "rejected"
          /\ handler' = [handler EXCEPT ![r] = "rejected"]
       \/ /\ \A g \in 1..Len(loops[r]) : loops[r][g].st = "done"
          /\ handler' = [handler EXCEPT ![r] = "resolved"]
    /\ UNCHANGED <<payload, grouped, loops, reports, budget, fmtError, fmtResult>>

\* invalidJSONFile continues after its await
JSONResume(r) ==
    /\ handler[r] = "pending"
    /\ payload[r].kind = "json"
    /\ reports[r][1].outcome # "pending"
    /\ handler' = [handler EXCEPT ![r] =
            IF reports[r][1].outcome = "reject" THEN "rejected" ELSE "resolved"]
    /\ UNCHANGED <<payload, grouped, loops, reports, budget, fmtError, fmtResult>>

\* the resources no event was received for
Waiting == {r \in Resources : handler[r] = "idle"}

Next ==
    \/ \E r \in Waiting, d \in Dialects, errors \in ErrorLists : invalidSchema(r, d, errors)
    \/ \E r \in Waiting, d \in Dialects, m \in JsonMessages : invalidJSONFile(r, d, m)
    \/ \E r \in Resources, c \in 1..MaxErrors : SinkAck(r, c)
    \/ \E r \in Resources, c \in 1..MaxErrors : SinkReject(r, c)
    \/ \E r \in Resources, g \in 1..MaxErrors : ReportResume(r, g)
    \/ \E r \in Resources : PromiseAll(r)
    \/ \E r \in Resources : JSONResume(r)

Spec == Init /\ [][Next]_vars

(* --------------------- formatting one error alone ---------------------- *)
InitFmt ==
    /\ payload = [r \in Resources |-> NoPayload]
    /\ grouped = [r \in Resources |-> <<>>]
    /\ loops = [r \in Resources |-> <<>>]
    /\ reports = [r \in Resources |-> <<>>]
    /\ handler = [r \in Resources |-> "idle"]
    /\ budget = 0
    /\ fmtError \in FmtErrors
    /\ fmtResult = NoResult

\* prettyfy(error) of the dialect's rule
Format(dialect) ==
    /\ fmtResult' = [dialect |-> dialect, message |-> prettyfy(dialect, fmtError)]
    /\ UNCHANGED <<payload, grouped, loops, reports, handler, budget, fmtError>>

NextFmt == \E d \in Dialects : Format(d)

SpecFmt == InitFmt /\ [][NextFmt]_vars


(* ========================= properties ================================== *)
Indices(seq) == [i \in 1..Len(seq) |-> i]
IsSchema(r) == payload[r].kind = "schema"
IsJson(r) == payload[r].kind = "json"
Calls(r) == 1..Len(reports[r])
CallsFor(r, e) == {c \in Calls(r) : reports[r][c].err = e}
NoReject(r) == \A c \in Calls(r) : reports[r][c].outcome # "reject"
SamePath(errors, a, b) == errors[a].dataPath = errors[b].dataPath
OrSep == <<" ", "o", "r", " ">>

\* s1 or s2 or ... built from the right end
RECURSIVE OrList(_)
OrList(strs) ==
    IF Len(strs) = 0 THEN <<>>
    ELSE IF Len(strs) = 1 THEN strs[1]
    ELSE OrList(SubSeq(strs, 1, Len(strs) - 1)) \o OrSep \o strs[Len(strs)]

PrettyOf(dialect, errors, idx) == [k \in 1..Len(idx) |-> prettyfy(dialect, errors[idx[k]])]

\* C1 as stated: in the typescript dialect the diagnostic of an anyOf error e is the
\* prettyfy outputs of every other error of the whole list E, in E's order, joined
\* by " or ", errors of other dataPaths included.
C1_WholeList ==
    \A r \in Resources : \A c \in Calls(r) :
        (IsSchema(r) /\ payload[r].dialect = "typescript"
            /\ payload[r].errors[reports[r][c].err].keyword = "anyOf")
        => LET errors == payload[r].errors
               e == reports[r][c].err
               others == SelectSeq(Indices(errors), LAMBDA i : i # e)
           IN  reports[r][c].message = OrList(PrettyOf("typescript", errors, others))

\* C1 amended: the diagnostic of an anyOf error e is the prettyfy outputs of the
\* other errors of E that share e's dataPath, in E's order, joined by " or ".
C1_GroupOnly ==
    \A r \in Resources : \A c \in Calls(r) :
        (IsSchema(r) /\ payload[r].dialect = "typescript"
            /\ payload[r].errors[reports[r][c].err].keyword = "anyOf")
        => LET errors == payload[r].errors
               e == reports[r][c].err
               others == SelectSeq(Indices(errors),
                                   LAMBDA i : i # e /\ SamePath(errors, i, e))
           IN  reports[r][c].message = OrList(PrettyOf("typescript", errors, others))

\* an anyOf error reported with a sibling of its dataPath and an error of another
\* dataPath in the list
C1_Witness ==
    \E r \in Resources : \E c \in Calls(r) :
        /\ IsSchema(r) /\ payload[r].dialect = "typescript"
        /\ payload[r].errors[reports[r][c].err].keyword = "anyOf"
        /\ \E i, j \in 1..Len(payload[r].errors) :
              /\ i # reports[r][c].err /\ SamePath(payload[r].errors, i, reports[r][c].err)
              /\ ~SamePath(payload[r].errors, j, reports[r][c].err)

\* C2: for errors a before b of one dataPath, b is passed to context.report only
\* after the call for a was made (earlier in the sink's log) and acknowledged.
C2_InGroupOrder ==
    \A r \in Resources : \A cb \in Calls(r) :
        IsSchema(r) =>
            \A a \in 1..Len(payload[r].errors) :
                (a < reports[r][cb].err /\ SamePath(payload[r].errors, a, reports[r][cb].err))
                => \E ca \in Calls(r) :
                      /\ ca < cb
                      /\ reports[r][ca].err = a
                      /\ reports[r][ca].outcome = "ack"

\* a second error of a group was reported, and an error of another group that
\* comes later in the input was reported before it
C2_Witness ==
    \E r \in Resources : \E ca, cb, cx \in Calls(r) :
        /\ IsSchema(r)
        /\ reports[r][ca].err < reports[r][cb].err
        /\ SamePath(payload[r].errors, reports[r][ca].err, reports[r][cb].err)
        /\ ~SamePath(payload[r].errors, reports[r][cx].err, reports[r][cb].err)
        /\ reports[r][cx].err > reports[r][cb].err
        /\ cx < cb

\* C3: a resolved invalidSchema handler has had context.report called and
\* acknowledged for every error of the event.
C3_ResolvedAfterAll ==
    \A r \in Resources :
        (IsSchema(r) /\ handler[r] = "resolved")
        => \A e \in 1..Len(payload[r].errors) :
              \E c \in Calls(r) : reports[r][c].err = e /\ reports[r][c].outcome = "ack"

\* a handler resolved over several groups, one of them with two errors
C3_Witness ==
    \E r \in Resources :
        /\ IsSchema(r) /\ handler[r] = "resolved"
        /\ Len(grouped[r]) = 2
        /\ Len(payload[r].errors) = 3

\* C4: with a sink that does not reject, every error is reported at most once, with
\* the event's resource and a null location, and a resolved handler has made
\* exactly one call per error (none for an empty list).
C4_OncePerError ==
    \A r \in Resources :
        (IsSchema(r) /\ NoReject(r))
        => /\ \A e \in 1..Len(payload[r].errors) : Cardinality(CallsFor(r, e)) <= 1
           /\ \A c \in Calls(r) :
                 /\ reports[r][c].err \in 1..Len(payload[r].errors)
                 /\ reports[r][c].resource = payload[r].resource
                 /\ reports[r][c].location = Null
           /\ handler[r] = "resolved"
                 => /\ Len(reports[r]) = Len(payload[r].errors)
                    /\ \A e \in 1..Len(payload[r].errors) : Cardinality(CallsFor(r, e)) = 1

\* a resolved typescript handler of three errors, one of them anyOf
C4_Witness ==
    \E r \in Resources :
        /\ IsSchema(r) /\ NoReject(r) /\ handler[r] = "resolved"
        /\ payload[r].dialect = "typescript"
        /\ Len(payload[r].errors) = 3
        /\ \E e \in 1..3 : payload[r].errors[e].keyword = "anyOf"
        /\ Len(reports[r]) = 3

\* the indices of the errors that are the first of their dataPath
FirstSeen(errors) ==
    SelectSeq(Indices(errors), LAMBDA i : \A j \in 1..(i - 1) : ~SamePath(errors, i, j))

\* C5: the groups are keyed by the dataPaths in order of first occurrence, each
\* holds the errors of its dataPath in input order, and the report loops make
\* their first calls in group order.
C5_StablePartition ==
    \A r \in Resources :
        IsSchema(r)
        => LET errors == payload[r].errors
               first == FirstSeen(errors)
           IN  /\ Len(grouped[r]) = Len(first)
               /\ \A g \in 1..Len(first) :
                     /\ grouped[r][g].key = errors[first[g]].dataPath
                     /\ grouped[r][g].values =
                            SelectSeq(Indices(errors), LAMBDA i : SamePath(errors, i, first[g]))
                     /\ reports[r][g].err = first[g]

\* an event whose dataPaths are [a, b, a]
C5_Witness ==
    \E r \in Resources :
        /\ IsSchema(r)
        /\ Len(payload[r].errors) = 3
        /\ SamePath(payload[r].errors, 1, 3)
        /\ ~SamePath(payload[r].errors, 1, 2)
        /\ Len(reports[r]) = 3

\* C6: a json event makes exactly one call, with the event's resource, a null
\* location and error.message as received, and its handler resolves only once that
\* call is acknowledged.
C6_ParseFailure ==
    \A r \in Resources :
        IsJson(r)
        => /\ Len(reports[r]) = 1
           /\ reports[r][1].resource = payload[r].resource
           /\ reports[r][1].location = Null
           /\ reports[r][1].message = payload[r].message
           /\ handler[r] = "resolved" => reports[r][1].outcome = "ack"

\* a resolved json handler whose message holds a double quote
C6_Witness ==
    \E r \in Resources :
        /\ IsJson(r) /\ handler[r] = "resolved"
        /\ \E i \in 1..Len(payload[r].message) : payload[r].message[i] = "\""

BabelTable == {"additionalProperties", "enum", "type"}
TypescriptTable == {"additionalProperties", "enum", "pattern"}
TableOf(dialect) == IF dialect = "babel" THEN BabelTable ELSE TypescriptTable

\* C7: an error whose keyword is not in the dialect's table formats to its message.
C7_Fallback ==
    (fmtResult.dialect # "none" /\ fmtError.keyword \notin TableOf(fmtResult.dialect))
    => fmtResult.message = fmtError.message

\* a pattern error with a quoted message formatted by the babel dialect
C7_Witness ==
    /\ fmtResult.dialect = "babel"
    /\ fmtError.keyword = "pattern"
    /\ \E i \in 1..Len(fmtError.message) : fmtError.message[i] = "\""

\* v1, v2, ... built from the right end
RECURSIVE CommaList(_)
CommaList(values) ==
    IF Len(values) = 0 THEN <<>>
    ELSE IF Len(values) = 1 THEN values[1]
    ELSE CommaList(SubSeq(values, 1, Len(values) - 1)) \o <<",", " ">> \o values[Len(values)]

DataText(d) == IF d = NullData THEN <<"n", "u", "l", "l">> ELSE d.v
PathText(path) == IF path = <<>> THEN <<>> ELSE SubSeq(path, 2, Len(path))

\* C8: an enum error formats, in both dialects, to
\* '<dataPath from its 2nd character>' <message> '<allowedValues, comma separated,
\* in the given order>'. Value found '<data>'
C8_Enum ==
    (fmtResult.dialect # "none" /\ fmtError.keyword = "enum")
    => fmtResult.message =
          <<"'">> \o PathText(fmtError.dataPath) \o <<"'", " ">> \o fmtError.message
          \o <<" ", "'">> \o CommaList(fmtError.params.allowedValues)
          \o <<"'", ".", " ", "V", "a", "l", "u", "e", " ", "f", "o", "u", "n", "d", " ", "'">>
          \o DataText(fmtError.data) \o <<"'">>

\* an enum error with two different allowed values formatted by the typescript
\* dialect, whose last table entry (pattern) is tried after the enum entry
C8_Witness ==
    /\ fmtResult.dialect = "typescript"
    /\ fmtError.keyword = "enum"
    /\ Len(fmtError.params.allowedValues) = 2
    /\ fmtError.params.allowedValues[1] # fmtError.params.allowedValues[2]

(* ------------------ the same program, fairly scheduled ----------------- *)
\* the sink settles every call it was given, and the event loop runs every
\* continuation that is ready
Fairness ==
    \A r \in Resources :
        /\ WF_vars(\E c \in 1..MaxErrors : SinkAck(r, c) \/ SinkReject(r, c))
        /\ WF_vars(\E g \in 1..MaxErrors : ReportResume(r, g))
        /\ WF_vars(PromiseAll(r))
        /\ WF_vars(JSONResume(r))

InitFair ==
    /\ payload = [r \in Resources |-> NoPayload]
    /\ grouped = [r \in Resources |-> <<>>]
    /\ loops = [r \in Resources |-> <<>>]
    /\ reports = [r \in Resources |-> <<>>]
    /\ handler = [r \in Resources |-> "idle"]
    /\ budget = MaxFairErrors
    /\ fmtError = NoError
    /\ fmtResult = NoResult

FairSpec == InitFair /\ [][Next]_vars /\ Fairness

AllReported(r) ==
    /\ Len(reports[r]) = (IF IsJson(r) THEN 1 ELSE Len(payload[r].errors))
    /\ \A c \in Calls(r) : reports[r][c].outcome = "ack"

\* C9: no error is passed to context.report twice, a handler rejects only when a
\* call of its own event was rejected, and a handler none of whose calls is ever
\* rejected goes on to report every diagnostic and resolve, whatever happens to
\* the handler of the other resource.
C9_Isolation ==
    /\ [](\A r \in Resources :
            /\ \A e \in 0..Len(payload[r].errors) : Cardinality(CallsFor(r, e)) <= 1
            /\ handler[r] = "rejected" => ~NoReject(r))
    /\ \A r \in Resources :
          ([]NoReject(r))
          => [](handler[r] = "pending" => <>(handler[r] = "resolved" /\ AllReported(r)))

\* one handler has rejected and the handler of the other resource has resolved
\* with all its diagnostics
C9_Witness ==
    \E r, q \in Resources :
        /\ r # q
        /\ handler[r] = "rejected"
        /\ handler[q] = "resolved"
        /\ Len(reports[q]) >= 1
        /\ AllReported(q)

\* C10: in a schema run, once the call for an error is rejected no later error of
\* that group is passed to context.report, the handler never resolves and, once
\* the loop has thrown, rejects without waiting for the other loops; the loops of
\* the other groups still continue after the handler has rejected.
C10_RejectedGroup ==
    \A r \in Resources :
        IsSchema(r)
        => /\ \A c \in Calls(r) :
                 reports[r][c].outcome = "reject"
                 => /\ handler[r] # "resolved"
                    /\ \A d \in Calls(r) :
                          SamePath(payload[r].errors, reports[r][d].err, reports[r][c].err)
                          => reports[r][d].err <= reports[r][c].err
           /\ \A g \in 1..Len(loops[r]) :
                 /\ (loops[r][g].st = "rejected" /\ handler[r] = "pending")
                       => ENABLED PromiseAll(r)
                 /\ (loops[r][g].st = "awaiting" /\ reports[r][loops[r][g].call].outcome # "pending")
                       => ENABLED ReportResume(r, g)
           /\ handler[r] = "rejected" => \E g \in 1..Len(loops[r]) : loops[r][g].st = "rejected"

\* a diagnostic of another group was emitted after the handler had rejected
C10_Witness ==
    \E r \in Resources : \E c, d \in Calls(r) :
        /\ IsSchema(r)
        /\ handler[r] = "rejected"
        /\ reports[r][c].outcome = "reject"
        /\ ~SamePath(payload[r].errors, reports[r][d].err, reports[r][c].err)
        /\ reports[r][d].during = "rejected"

====
